---- MODULE Spec2Model ----
(***************************************************************************)
(* Model of JB_Dashboard.py: the data pipeline of one dashboard card       *)
(* (process_ticker_data, add_technical_indicators, draw_chart,             *)
(* create_card), the path simulator (run_monte_carlo) and the render pass  *)
(* of main() with its cache and its refresh loop.                          *)
(*                                                                         *)
(* A DataFrame is a record [index, cols]: index is the sequence of row     *)
(* dates (day numbers, day 0 a Monday) and cols maps a column name to the  *)
(* sequence of its values.  Price columns hold integers, NaN marks a       *)
(* missing value.  The derived float columns hold fractions [num, den];    *)
(* den = 0 encodes the IEEE specials: 0/0 is NaN and 1/0 is +inf.          *)
(***************************************************************************)
EXTENDS Integers, Sequences, FiniteSets, TLC

\* ------------------------------------------------------------------ bounds
MaxLen == 21        \* longest input table
MaxSim == 2         \* largest simulation count tried on run_monte_carlo
MaxDays == 3        \* largest horizon tried on run_monte_carlo
MaxStart == 6       \* latest weekday (0 = Monday) of an input table's first row

\* ------------------------------------------------------- program constants
SMA_WINDOW == 20
RSI_WINDOW == 14
MIN_ROWS == 20
BAND_WIDTH == 2
JPY_UNIT == 100
DEFAULT_SIMULATIONS == 50
DEFAULT_DAYS == 30
COUNTDOWN == 10
CACHE_TTL == 60

\* -------------------------------------------------------- values and frames
NaN == -1000000

isna(x) == x = NaN

FNaN == [num |-> 0, den |-> 0]
FInf == [num |-> 1, den |-> 0]

Frac(n, d) == [num |-> n, den |-> d]

FIsNaN(f) == f.den = 0 /\ f.num = 0
FIsInf(f) == f.den = 0 /\ f.num # 0
FDefined(f) == ~FIsNaN(f)

\* IEEE division of two non-negative finite numbers given over a common
\* denominator: x/0 is +inf for x > 0 and NaN for x = 0.
FDiv(n, d) ==
    IF d = 0 THEN (IF n = 0 THEN FNaN ELSE FInf) ELSE Frac(n, d)

\* a + k*b on fractions, NaN propagating (inputs are finite or NaN).
FAddMul(a, k, b) ==
    IF FIsNaN(a) \/ FIsNaN(b) THEN FNaN
    ELSE Frac(a.num * b.den + k * b.num * a.den, a.den * b.den)

FLeq(a, b) == a.num * b.den <= b.num * a.den

EmptyDF == [index |-> <<>>, cols |-> <<>>]

None == [index |-> <<>>, cols |-> <<>>, none |-> TRUE]

\* DataFrame.empty: no rows or no columns.
empty(df) == Len(df.index) = 0 \/ DOMAIN df.cols = {}

\* len(df)
len(df) == Len(df.index)

PriceCols == {"Open", "High", "Low", "Close"}
IndicatorCols == {"SMA_20", "STD_20", "Upper_Band", "Lower_Band", "RSI"}

RECURSIVE SumSeq(_, _, _)
\* s[lo] + ... + s[hi]
SumSeq(s, lo, hi) == IF lo > hi THEN 0 ELSE s[hi] + SumSeq(s, lo, hi - 1)

RECURSIVE ISqrtIter(_, _, _)
ISqrtIter(n, lo, hi) ==
    IF lo >= hi THEN lo
    ELSE LET mid == (lo + hi + 1) \div 2
         IN IF mid * mid <= n THEN ISqrtIter(n, mid, hi)
            ELSE ISqrtIter(n, lo, mid - 1)

RECURSIVE SqrtBound(_, _)
\* a power of two whose square exceeds n
SqrtBound(n, b) == IF b * b > n THEN b ELSE SqrtBound(n, 2 * b)

\* floor of the square root of n
ISqrt(n) == ISqrtIter(n, 0, SqrtBound(n, 1))

\* ------------------------------------------------------ process_ticker_data
RECURSIVE NotNaIdx(_, _)
\* The increasing sequence of the positions i <= n at which col[i] is present.
NotNaIdx(col, n) ==
    IF n = 0 THEN <<>>
    ELSE IF isna(col[n]) THEN NotNaIdx(col, n - 1)
         ELSE Append(NotNaIdx(col, n - 1), n)

\* The rows of df at the positions keep, in that order.
take(df, keep) ==
    [index |-> [k \in 1..Len(keep) |-> df.index[keep[k]]],
     cols  |-> [c \in DOMAIN df.cols |->
                  [k \in 1..Len(keep) |-> df.cols[c][keep[k]]]]]

\* df.dropna(subset=['Close'])
dropna(df) == take(df, NotNaIdx(df.cols["Close"], len(df)))

\* fillna(0) in the place of fillna(df['Close'])
fillna_zero(col, close) ==
    [i \in 1..Len(col) |-> IF isna(col[i]) THEN 0 ELSE col[i]]

\* df[col].fillna(df['Close'])
fillna(col, close) ==
    [i \in 1..Len(col) |-> IF isna(col[i]) THEN close[i] ELSE col[i]]

\* the loop over cols_to_check
fill_ohl(df) ==
    [df EXCEPT !.cols =
        [c \in DOMAIN df.cols |->
            IF c \in {"Open", "High", "Low"}
            THEN fillna(df.cols[c], df.cols["Close"])
            ELSE df.cols[c]]]

\* df * k
scale(df, k) ==
    [df EXCEPT !.cols =
        [c \in DOMAIN df.cols |->
            [i \in 1..Len(df.cols[c]) |->
                IF isna(df.cols[c][i]) THEN NaN ELSE df.cols[c][i] * k]]]

\* delta of the last two closes
last_delta(close) ==
    IF Len(close) >= 2 THEN close[Len(close)] - close[Len(close) - 1] ELSE 0

\* (df['High'] == df['Low']).mean() > 0.5
flat(df) ==
    2 * Cardinality({i \in 1..len(df) : df.cols["High"][i] = df.cols["Low"][i]})
        > len(df)

\* The four returned values, and arg: the caller's table as the call leaves it
\* (the function works on df.copy()).
process_ticker_data(df, is_jpy) ==
    IF empty(df)
    THEN [price |-> 0, delta |-> 0, df |-> EmptyDF, is_flat |-> FALSE, arg |-> df]
    ELSE LET d1 == dropna(df)
         IN IF empty(d1)
            THEN [price |-> 0, delta |-> 0, df |-> EmptyDF, is_flat |-> FALSE,
                  arg |-> df]
            ELSE LET d2 == fill_ohl(d1)
                     d3 == IF is_jpy THEN scale(d2, JPY_UNIT) ELSE d2
                     current_price == d3.cols["Close"][len(d3)]
                     delta == last_delta(d3.cols["Close"])
                 IN [price   |-> IF isna(current_price) THEN 0 ELSE current_price,
                     delta   |-> IF isna(delta) THEN 0 ELSE delta,
                     df      |-> d3,
                     is_flat |-> flat(d3),
                     arg     |-> df]

\* ------------------------------------------------- add_technical_indicators
\* Some value of s[lo..hi] is missing.
HasNaN(s, lo, hi) == \E j \in lo..hi : isna(s[j])

\* rolling(window=w).mean() of an integer column
rolling_mean(s, w) ==
    [i \in 1..Len(s) |->
        IF i < w \/ HasNaN(s, i - w + 1, i) THEN FNaN
        ELSE Frac(SumSeq(s, i - w + 1, i), w)]

\* rolling(window=w).std(): sample deviation (ddof = 1) of the window,
\* sqrt((w*sum(d^2) - sum(d)^2) / (w*(w-1))) for the distances d to the
\* window's first value, rounded down to a whole price unit.
rolling_std(s, w) ==
    [i \in 1..Len(s) |->
        IF i < w \/ HasNaN(s, i - w + 1, i) THEN FNaN
        ELSE LET d  == [j \in 1..Len(s) |-> s[j] - s[i - w + 1]]
                 sq == [j \in 1..Len(s) |-> d[j] * d[j]]
                 sm == SumSeq(d, i - w + 1, i)
                 v  == w * SumSeq(sq, i - w + 1, i) - sm * sm
             IN Frac(ISqrt(v \div (w * (w - 1))), 1)]

\* df['Close'].diff()
diff(s) ==
    [i \in 1..Len(s) |->
        IF i = 1 \/ isna(s[i]) \/ isna(s[i - 1]) THEN NaN ELSE s[i] - s[i - 1]]

\* delta.where(delta > 0, 0): a comparison with NaN is false
gain_part(d) == IF ~isna(d) /\ d > 0 THEN d ELSE 0

\* the losses without the sign flip
loss_part_signed(d) == IF ~isna(d) /\ d < 0 THEN d ELSE 0

\* -delta.where(delta < 0, 0)
loss_part(d) == 0 - (IF ~isna(d) /\ d < 0 THEN d ELSE 0)

\* rs = gain / loss, both means over the same window
rs_of(gain, loss) ==
    IF FIsNaN(gain) \/ FIsNaN(loss) THEN FNaN ELSE FDiv(gain.num, loss.num)

\* 100 - (100 / (1 + rs))
rsi_of(rs) ==
    IF FIsNaN(rs) THEN FNaN
    ELSE IF FIsInf(rs) THEN Frac(100, 1)
    ELSE Frac(100 * (rs.den + rs.num) - 100 * rs.den, rs.den + rs.num)

\* a guard that asks for the shorter window only
too_short_rsi(df) == empty(df) \/ len(df) < RSI_WINDOW

\* the guard of add_technical_indicators
too_short(df) == empty(df) \/ len(df) < MIN_ROWS

add_technical_indicators(df) ==
    IF too_short(df) THEN df
    ELSE LET close == df.cols["Close"]
             sma   == rolling_mean(close, SMA_WINDOW)
             std   == rolling_std(close, SMA_WINDOW)
             delta == diff(close)
             gain  == rolling_mean([i \in 1..Len(delta) |-> gain_part(delta[i])],
                                   RSI_WINDOW)
             loss  == rolling_mean([i \in 1..Len(delta) |-> loss_part(delta[i])],
                                   RSI_WINDOW)
             new   == [SMA_20     |-> sma,
                       STD_20     |-> std,
                       Upper_Band |-> [i \in 1..Len(close) |->
                                          FAddMul(sma[i], BAND_WIDTH, std[i])],
                       Lower_Band |-> [i \in 1..Len(close) |->
                                          FAddMul(sma[i], 0 - BAND_WIDTH, std[i])],
                       RSI        |-> [i \in 1..Len(close) |->
                                          rsi_of(rs_of(gain[i], loss[i]))]]
         IN [df EXCEPT !.cols =
                [c \in DOMAIN df.cols \cup IndicatorCols |->
                    IF c \in IndicatorCols THEN new[c] ELSE df.cols[c]]]

\* The 14-day averages behind RSI, for stating properties of it.
gain_avg(df) ==
    rolling_mean([i \in 1..len(df) |-> gain_part(diff(df.cols["Close"])[i])],
                 RSI_WINDOW)
loss_avg(df) ==
    rolling_mean([i \in 1..len(df) |-> loss_part(diff(df.cols["Close"])[i])],
                 RSI_WINDOW)

\* --------------------------------------------------------------- draw_chart
draw_chart(df, is_flat, show_tech) ==
    IF empty(df) THEN [traces |-> <<>>]
    ELSE [traces |->
            (IF is_flat THEN <<"Close">> ELSE <<"Price">>)
            \o (IF show_tech /\ "SMA_20" \in DOMAIN df.cols
                THEN <<"Upper_Band", "Bollinger Band", "SMA 20">>
                ELSE <<>>)]

\* ---------------------------------------------------------- run_monte_carlo
\* np.log(1 + df['Close'].pct_change()), by class: the first entry and every
\* entry next to a missing close is NaN, the others are finite (closes are
\* positive).
log_returns(close) ==
    [i \in 1..Len(close) |->
        IF i = 1 \/ isna(close[i]) \/ isna(close[i - 1]) THEN "nan" ELSE "fin"]

count_fin(r) == Cardinality({i \in 1..Len(r) : r[i] = "fin"})

\* Series.mean(): NaN are skipped, NaN when nothing is left
mean_class(r) == IF count_fin(r) >= 1 THEN "fin" ELSE "nan"

\* Series.var() and Series.std() (ddof = 1): NaN below two observations
var_class(r) == IF count_fin(r) >= 2 THEN "fin" ELSE "nan"

\* stdev = log_returns.std()
stdev_class(r) == var_class(r)

\* drift = u - (0.5 * var)
drift_class(r) ==
    IF mean_class(r) = "fin" /\ var_class(r) = "fin" THEN "fin" ELSE "nan"

\* np.exp(drift + stdev * Z) for a finite draw Z
daily_return(drift, stdev) ==
    IF drift = "fin" /\ stdev = "fin" THEN "pos" ELSE "nan"

\* class of a price
price_class(p) ==
    IF isna(p) THEN "nan" ELSE IF p > 0 THEN "pos" ELSE IF p = 0 THEN "zero" ELSE "neg"

\* price_paths[-1] * r
step_price(p, r) ==
    IF p = "nan" \/ r = "nan" THEN "nan"
    ELSE IF p = "zero" THEN "zero"
    ELSE p

RECURSIVE price_after(_, _, _)
\* price_paths[k]: k returns applied to price_paths[0] = p
price_after(p, r, k) ==
    IF k = 0 THEN p ELSE step_price(price_after(p, r, k - 1), r)

\* price_paths[1:]
price_path(p, r, n) == [k \in 1..n |-> price_after(p, r, k)]

\* the first offset of range(1, days+1)
first_offset == 1

\* range(0, days) in the place of range(1, days+1)
prediction_dates_from_last(last, days) == [x \in 1..days |-> last + (x - 1)]

\* [df.index[-1] + timedelta(days=x) for x in range(1, days+1)]
prediction_dates(last, days) ==
    [x \in 1..days |-> last + (first_offset + x - 1)]

run_monte_carlo(df, simulations, days) ==
    IF empty(df) THEN None
    ELSE LET close == df.cols["Close"]
             r     == log_returns(close)
             drift == drift_class(r)
             stdev == stdev_class(r)
             last_price == close[Len(close)]
             path  == price_path(price_class(last_price),
                                 daily_return(drift, stdev), days)
         IN [index |-> prediction_dates(df.index[len(df)], days),
             cols  |-> [i \in 0..(simulations - 1) |-> path]]
NoSimFig == [drawn |-> FALSE, traces |-> <<>>]

\* a caller that does not test the result
is_not_none_always(sim_res) == TRUE

\* sim_res is not None
is_not_none(sim_res) == sim_res # None

\* if sim_res is not None: the chart is drawn, one line trace per column
sim_chart(sim_res) ==
    IF is_not_none(sim_res)
    THEN [drawn |-> TRUE,
          traces |-> [k \in 1..Cardinality(DOMAIN sim_res.cols) |-> "Sim"]]
    ELSE NoSimFig

\* ======================================================================
\* The functions on their own: SpecFn applies process_ticker_data, then
\* add_technical_indicators and draw_chart, or run_monte_carlo, to every
\* table of a bounded family.
\* ======================================================================
VARIABLES fpc, in_df, f_jpy, res, ind, f_tech, fig, sim, sim_fig, f_sims, f_days

fvars == <<fpc, in_df, f_jpy, res, ind, f_tech, fig, sim, sim_fig, f_sims, f_days>>

\* first close of a generated table
BasePrice == 40

Deltas == {-1, 0, 1}
Holes == 0..3

\* A daily table of n rows from weekday start, first close base: closes move by d1 and d2 in
\* turn, High/Low lie one above and below the close (on it when the close
\* never moves).  hole 1 is a row without any price (a holiday), hole 2 a last
\* row with only Low and Close, hole 3 a last row without prices after a
\* first row without Low.
Table(base, n, start, d1, d2, hole) ==
    LET c(i) == base + d1 * (i \div 2) + d2 * ((i - 1) \div 2)
        w    == IF d1 = 0 /\ d2 = 0 THEN 0 ELSE 1
        gone(col, i) ==
            \/ hole = 1 /\ i = 2
            \/ hole = 2 /\ i = n /\ col \in {"Open", "High"}
            \/ hole = 3 /\ i = n
            \/ hole = 3 /\ i = 1 /\ col = "Low"
        v(col, i) == IF gone(col, i) THEN NaN
                     ELSE IF col = "High" THEN c(i) + w
                     ELSE IF col = "Low" THEN c(i) - w
                     ELSE IF col = "Open" THEN c(i) - d2 * w * w
                     ELSE c(i)
    IN IF n = 0 THEN EmptyDF
       ELSE [index |-> [i \in 1..n |-> start + i - 1],
             cols  |-> [col \in PriceCols |-> [i \in 1..n |-> v(col, i)]]]

NoResult == [price |-> 0, delta |-> 0, df |-> EmptyDF, is_flat |-> FALSE,
             arg |-> EmptyDF]
NoFig == [traces |-> <<>>]

FnInit ==
    /\ fpc = "input"
    /\ \E n \in 0..MaxLen, start \in 0..MaxStart, d1 \in Deltas, d2 \in Deltas,
          hole \in Holes :
          in_df = Table(BasePrice, n, start, d1, d2, hole)
    /\ f_jpy = FALSE
    /\ res = NoResult
    /\ ind = EmptyDF
    /\ f_tech = FALSE
    /\ fig = NoFig
    /\ sim = None
    /\ sim_fig = NoSimFig
    /\ f_sims = 0
    /\ f_days = 0

\* price, delta, df, is_flat = process_ticker_data(ticker_df, is_jpy)
Process ==
    /\ fpc = "input"
    /\ \E j \in BOOLEAN :
          /\ f_jpy' = j
          /\ res' = process_ticker_data(in_df, j)
          /\ in_df' = process_ticker_data(in_df, j).arg
    /\ fpc' = "processed"
    /\ UNCHANGED <<ind, f_tech, fig, sim, sim_fig, f_sims, f_days>>

\* df = add_technical_indicators(df)
Indicators ==
    /\ fpc = "processed"
    /\ ind' = add_technical_indicators(res.df)
    /\ fpc' = "indicated"
    /\ UNCHANGED <<in_df, f_jpy, res, f_tech, fig, sim, sim_fig, f_sims, f_days>>

\* fig = draw_chart(df, ticker_id=ticker, is_flat=is_flat, show_tech=show_tech)
Draw ==
    /\ fpc = "indicated"
    /\ \E t \in BOOLEAN :
          /\ f_tech' = t
          /\ fig' = draw_chart(ind, res.is_flat, t)
    /\ fpc' = "drawn"
    /\ UNCHANGED <<in_df, f_jpy, res, ind, sim, sim_fig, f_sims, f_days>>

\* sim_res = run_monte_carlo(sim_data, ...) and the chart drawn from it
Simulate ==
    /\ fpc = "processed"
    /\ \E s \in 1..MaxSim, h \in 1..MaxDays :
          /\ f_sims' = s
          /\ f_days' = h
          /\ sim' = run_monte_carlo(res.df, s, h)
          /\ sim_fig' = sim_chart(run_monte_carlo(res.df, s, h))
    /\ fpc' = "simulated"
    /\ UNCHANGED <<in_df, f_jpy, res, ind, f_tech, fig>>

\* ======================================================================
\* The render pass of main() with the cache of get_batch_data and the
\* refresh loop.
\* ======================================================================
MaxBad == 1         \* most symbols a download lacks or returns without prices
MaxFetch == 2       \* downloads in one behaviour

indices == [KOSPI |-> "^KS11", KOSDAQ |-> "^KQ11", NASDAQ |-> "^IXIC",
            DollarIndex |-> "DX-Y.NYB"]
currencies == [USDKRW |-> "KRW=X", JPYKRW |-> "JPYKRW=X", EURKRW |-> "EURKRW=X",
               CNYKRW |-> "CNYKRW=X"]
cryptos == [Bitcoin |-> "BTC-KRW", Ethereum |-> "ETH-KRW"]

\* {**indices, **currencies, **cryptos}
code_of == [n \in DOMAIN indices \cup DOMAIN currencies \cup DOMAIN cryptos |->
              IF n \in DOMAIN indices THEN indices[n]
              ELSE IF n \in DOMAIN currencies THEN currencies[n]
              ELSE cryptos[n]]

all_tickers == {code_of[n] : n \in DOMAIN code_of}

\* the cards of the three sections, in the order main() draws them
card_order == <<"^KS11", "^KQ11", "^IXIC", "DX-Y.NYB",
                "KRW=X", "JPYKRW=X", "EURKRW=X", "CNYKRW=X",
                "BTC-KRW", "ETH-KRW">>

\* is_jpy=True is passed for the JPY/KRW card only
jpy_card(t) == t = currencies.JPYKRW

\* options of the selectbox: list(cryptos.keys()) + list(indices.keys());
\* the first one is selected until the user picks another
target_options == <<"Bitcoin", "Ethereum", "KOSPI", "KOSDAQ", "NASDAQ", "DollarIndex">>

\* the options the user picks among here
Targets == {"Bitcoin", "KOSPI"}

VARIABLES pc, simple_mode, auto_refresh, show_tech, show_heatmap, show_monte,
          target_asset, button, cache, batch_data, cards, quant, status, slept,
          error, fetches, mark

avars == <<pc, simple_mode, auto_refresh, show_tech, show_heatmap, show_monte,
           target_asset, button, cache, batch_data, cards, quant, status, slept,
           error, fetches, mark>>

vars == <<avars, fvars>>

\* position of ticker t in card_order
pos(t) == CHOOSE k \in 1..Len(card_order) : card_order[k] = t

\* The table yf.download returns for symbol t: a year of days is cut to
\* MIN_ROWS rows; kind "nan" is a symbol whose rows carry no price.
TickerTable(t, kind) ==
    IF kind = "nan"
    THEN [index |-> [i \in 1..MIN_ROWS |-> i - 1],
          cols  |-> [c \in PriceCols |-> [i \in 1..MIN_ROWS |-> NaN]]]
    ELSE Table(BasePrice + pos(t), MIN_ROWS, 0, 1, (pos(t) % 3) - 1, 0)

\* pd.DataFrame(), as get_batch_data returns it when the download raises
EmptyBatch == [multi |-> FALSE, tables |-> <<>>, flat |-> EmptyDF, seq |-> 0]

\* What yf.download(tickers, group_by='ticker') can return: a table per
\* symbol under a MultiIndex, where the symbols of gone are absent and the
\* symbols of blank have no price.
Download(gone, blank) ==
    [multi  |-> TRUE,
     tables |-> [t \in all_tickers \ gone |->
                   TickerTable(t, IF t \in blank THEN "nan" ELSE "ok")],
     flat   |-> EmptyDF,
     seq    |-> 0]

\* The symbols a download is made to fail on: those of the two simulation
\* targets, the one card drawn with is_jpy, and one card like all the others.
Fragile == {cryptos.Bitcoin, indices.KOSPI, currencies.JPYKRW, currencies.USDKRW}

\* the symbol sets a download may fail on
BadSets == {x \in SUBSET Fragile : Cardinality(x) <= MaxBad}

\* the results get_batch_data draws from
Downloads ==
    {EmptyBatch} \cup {Download(x, {}) : x \in BadSets}
                 \cup {Download({}, x) : x \in BadSets}

\* batch_data.empty
batch_empty(b) ==
    IF b.multi
    THEN DOMAIN b.tables = {} \/ \A t \in DOMAIN b.tables : len(b.tables[t]) = 0
    ELSE empty(b.flat)

NoCache == [multi |-> FALSE, tables |-> <<>>, flat |-> EmptyDF, seq |-> 0 - 1]

\* a refresh that leaves the cached result in place
keep_cache(c) == c

\* st.cache_data.clear()
clear_cache(c) == NoCache

\* The slice of the batch create_card hands to process_ticker_data
\* (a KeyError leaves pd.DataFrame()).
ticker_slice(b, ticker) ==
    IF ~batch_empty(b)
    THEN IF b.multi
         THEN (IF ticker \in DOMAIN b.tables THEN b.tables[ticker] ELSE EmptyDF)
         ELSE b.flat
    ELSE EmptyDF

\* the load-failure notice is drawn in the place of the chart
warns(show_chart, df) == show_chart /\ empty(df)

\* create_card: what the card shows
create_card(ticker, b, is_jpy, show_chart, tech) ==
    LET r  == process_ticker_data(ticker_slice(b, ticker), is_jpy)
        df == IF tech /\ ~empty(r.df) THEN add_technical_indicators(r.df) ELSE r.df
    IN [price   |-> r.price,
        delta   |-> r.delta,
        closes  |-> IF empty(df) THEN <<>> ELSE df.cols["Close"],
        chart   |-> show_chart /\ ~empty(df),
        fig     |-> IF show_chart /\ ~empty(df)
                    THEN draw_chart(df, r.is_flat, tech) ELSE NoFig,
        warning |-> warns(show_chart, df)]

NoCards == [t \in {} |-> 0]
NoQuant == [shown |-> FALSE, heat |-> {}, sim_fig |-> NoSimFig]

\* The names whose close column enters close_df: a lookup that raises is
\* skipped by the bare except.
close_df_names(b) ==
    {n \in DOMAIN code_of : b.multi /\ code_of[n] \in DOMAIN b.tables}

\* sim_data = batch_data[target_code] raises KeyError for an absent symbol
sim_data_raises(b, target) == b.multi /\ code_of[target] \notin DOMAIN b.tables

sim_data(b, target) == IF b.multi THEN b.tables[code_of[target]] ELSE b.flat

AppInit ==
    /\ pc = "start"
    /\ simple_mode = FALSE
    /\ auto_refresh = FALSE
    /\ show_tech = TRUE
    /\ show_heatmap = TRUE
    /\ show_monte = TRUE
    /\ target_asset = target_options[1]
    /\ button = FALSE
    /\ cache = NoCache
    /\ batch_data = NoCache
    /\ cards = NoCards
    /\ quant = NoQuant
    /\ status = 0
    /\ slept = 0
    /\ error = "none"
    /\ fetches = 0
    /\ mark = 0

\* A run of the script begins: nothing of the previous pass is on the page.
\* With the button pressed the cache is cleared and the script reruns.
Start ==
    /\ pc = "start"
    /\ IF button
       THEN /\ cache' = clear_cache(cache)
            /\ mark' = fetches
            /\ button' = FALSE
            /\ pc' = "start"
       ELSE /\ pc' = "fetch"
            /\ UNCHANGED <<cache, mark, button>>
    /\ batch_data' = NoCache
    /\ cards' = NoCards
    /\ quant' = NoQuant
    /\ status' = 0
    /\ slept' = 0
    /\ error' = "none"
    /\ UNCHANGED <<simple_mode, auto_refresh, show_tech, show_heatmap, show_monte,
                   target_asset, fetches>>

\* batch_data = get_batch_data(all_tickers), answered from the cache
FetchCached ==
    /\ pc = "fetch"
    /\ cache # NoCache
    /\ batch_data' = cache
    /\ pc' = "cards"
    /\ UNCHANGED <<simple_mode, auto_refresh, show_tech, show_heatmap, show_monte,
                   target_asset, button, cache, cards, quant, status, slept,
                   error, fetches, mark>>

\* get_batch_data downloads: the result, or pd.DataFrame() when the download
\* raises, is cached and returned
FetchDownload ==
    /\ pc = "fetch"
    /\ cache = NoCache
    /\ fetches < MaxFetch
    /\ \E d \in Downloads :
          /\ batch_data' = [d EXCEPT !.seq = fetches + 1]
          /\ cache' = [d EXCEPT !.seq = fetches + 1]
    /\ fetches' = fetches + 1
    /\ pc' = "cards"
    /\ UNCHANGED <<simple_mode, auto_refresh, show_tech, show_heatmap, show_monte,
                   target_asset, button, cards, quant, status, slept, error, mark>>

\* the three card sections
Cards ==
    /\ pc = "cards"
    /\ cards' = [t \in all_tickers |->
                    create_card(t, batch_data, jpy_card(t), ~simple_mode, show_tech)]
    /\ pc' = "quant"
    /\ UNCHANGED <<simple_mode, auto_refresh, show_tech, show_heatmap, show_monte,
                   target_asset, button, cache, batch_data, quant, status, slept,
                   error, fetches, mark>>

\* the Quant Lab section; an exception ends the run
QuantLab ==
    /\ pc = "quant"
    /\ IF ~simple_mode /\ (show_heatmap \/ show_monte)
       THEN IF show_monte /\ sim_data_raises(batch_data, target_asset)
            THEN /\ quant' = [shown |-> TRUE,
                              heat |-> IF show_heatmap THEN close_df_names(batch_data)
                                       ELSE {},
                              sim_fig |-> NoSimFig]
                 /\ error' = "KeyError"
                 /\ pc' = "crashed"
            ELSE /\ quant' = [shown |-> TRUE,
                              heat |-> IF show_heatmap THEN close_df_names(batch_data)
                                       ELSE {},
                              sim_fig |-> IF show_monte
                                          THEN sim_chart(run_monte_carlo(
                                                   sim_data(batch_data, target_asset),
                                                   DEFAULT_SIMULATIONS, DEFAULT_DAYS))
                                          ELSE NoSimFig]
                 /\ pc' = "refresh"
                 /\ UNCHANGED error
       ELSE /\ pc' = "refresh"
            /\ UNCHANGED <<quant, error>>
    /\ UNCHANGED <<simple_mode, auto_refresh, show_tech, show_heatmap, show_monte,
                   target_asset, button, cache, batch_data, cards, status, slept,
                   fetches, mark>>

\* if auto_refresh: ... else: status_placeholder.empty()
Refresh ==
    /\ pc = "refresh"
    /\ IF auto_refresh THEN pc' = "countdown" ELSE pc' = "done"
    /\ status' = 0
    /\ UNCHANGED <<simple_mode, auto_refresh, show_tech, show_heatmap, show_monte,
                   target_asset, button, cache, batch_data, cards, quant, slept,
                   error, fetches, mark>>

\* one round of for i in range(10, 0, -1): the caption, then time.sleep(1)
CountdownStep ==
    /\ pc = "countdown"
    /\ slept < COUNTDOWN
    /\ status' = COUNTDOWN - slept
    /\ slept' = slept + 1
    /\ UNCHANGED <<pc, simple_mode, auto_refresh, show_tech, show_heatmap, show_monte,
                   target_asset, button, cache, batch_data, cards, quant, error,
                   fetches, mark>>

\* after the loop: st.cache_data.clear(); st.rerun()
AutoRerun ==
    /\ pc = "countdown"
    /\ slept = COUNTDOWN
    /\ cache' = clear_cache(cache)
    /\ mark' = fetches
    /\ pc' = "start"
    /\ UNCHANGED <<simple_mode, auto_refresh, show_tech, show_heatmap, show_monte,
                   target_asset, button, batch_data, cards, quant, status, slept,
                   error, fetches>>

\* the script is not running or sleeps
Waiting == pc \in {"done", "crashed", "countdown"}

\* The user changes a widget; the script reruns from the top.
Toggle ==
    /\ Waiting
    /\ \/ simple_mode' = ~simple_mode
          /\ UNCHANGED <<auto_refresh, show_tech, show_heatmap, show_monte, target_asset>>
       \/ auto_refresh' = ~auto_refresh
          /\ UNCHANGED <<simple_mode, show_tech, show_heatmap, show_monte, target_asset>>
       \/ show_tech' = ~show_tech
          /\ UNCHANGED <<simple_mode, auto_refresh, show_heatmap, show_monte, target_asset>>
       \/ show_heatmap' = ~show_heatmap
          /\ UNCHANGED <<simple_mode, auto_refresh, show_tech, show_monte, target_asset>>
       \/ show_monte' = ~show_monte
          /\ UNCHANGED <<simple_mode, auto_refresh, show_tech, show_heatmap, target_asset>>
       \/ \E a \in Targets \ {target_asset} :
             /\ quant.shown /\ show_monte
             /\ target_asset' = a
             /\ UNCHANGED <<simple_mode, auto_refresh, show_tech, show_heatmap, show_monte>>
    /\ pc' = "start"
    /\ UNCHANGED <<button, cache, batch_data, cards, quant, status, slept, error,
                   fetches, mark>>

\* The user presses the refresh button; the script reruns with it set.
PressButton ==
    /\ Waiting
    /\ button' = TRUE
    /\ pc' = "start"
    /\ UNCHANGED <<simple_mode, auto_refresh, show_tech, show_heatmap, show_monte,
                   target_asset, cache, batch_data, cards, quant, status, slept,
                   error, fetches, mark>>

\* The cached result is older than ttl=60 seconds and is dropped.
Expire ==
    /\ Waiting
    /\ cache # NoCache
    /\ cache' = NoCache
    /\ UNCHANGED <<pc, simple_mode, auto_refresh, show_tech, show_heatmap, show_monte,
                   target_asset, button, batch_data, cards, quant, status, slept,
                   error, fetches, mark>>

FnIdle ==
    /\ fpc = "idle"
    /\ in_df = EmptyDF
    /\ f_jpy = FALSE
    /\ res = NoResult
    /\ ind = EmptyDF
    /\ f_tech = FALSE
    /\ fig = NoFig
    /\ sim = None
    /\ sim_fig = NoSimFig
    /\ f_sims = 0
    /\ f_days = 0

AppIdle ==
    /\ pc = "idle"
    /\ simple_mode = FALSE
    /\ auto_refresh = FALSE
    /\ show_tech = TRUE
    /\ show_heatmap = TRUE
    /\ show_monte = TRUE
    /\ target_asset = target_options[1]
    /\ button = FALSE
    /\ cache = NoCache
    /\ batch_data = NoCache
    /\ cards = NoCards
    /\ quant = NoQuant
    /\ status = 0
    /\ slept = 0
    /\ error = "none"
    /\ fetches = 0
    /\ mark = 0

Init == AppInit /\ FnIdle

Next ==
    \/ Start /\ UNCHANGED fvars
    \/ FetchCached /\ UNCHANGED fvars
    \/ FetchDownload /\ UNCHANGED fvars
    \/ Cards /\ UNCHANGED fvars
    \/ QuantLab /\ UNCHANGED fvars
    \/ Refresh /\ UNCHANGED fvars
    \/ CountdownStep /\ UNCHANGED fvars
    \/ AutoRerun /\ UNCHANGED fvars
    \/ Toggle /\ UNCHANGED fvars
    \/ PressButton /\ UNCHANGED fvars
    \/ Expire /\ UNCHANGED fvars

Spec == Init /\ [][Next]_vars

InitFn == FnInit /\ AppIdle

NextFn ==
    \/ Process /\ UNCHANGED avars
    \/ Indicators /\ UNCHANGED avars
    \/ Draw /\ UNCHANGED avars
    \/ Simulate /\ UNCHANGED avars

SpecFn == InitFn /\ [][NextFn]_vars

\* ======================================================================
\* Properties
\* ======================================================================
FEq(a, b) == a.den # 0 /\ b.den # 0 /\ a.num * b.den = b.num * a.den

\* the date d falls on Monday..Friday
IsBusinessDay(d) == d % 7 < 5

AfterCards == pc \in {"quant", "refresh", "countdown", "done", "crashed"}

\* symbol t has at least one row with a close in batch b
Usable(b, t) ==
    /\ b.multi
    /\ t \in DOMAIN b.tables
    /\ \E i \in 1..len(b.tables[t]) : ~isna(b.tables[t].cols["Close"][i])

\* the unit the card of t is drawn in
UnitOf(t) == IF jpy_card(t) THEN JPY_UNIT ELSE 1

\* C1: a symbol without data never aborts the render pass: its card shows
\* price 0, delta 0 and an empty series, every other card shows that symbol's
\* own values, and the pass reaches the auto-refresh step without an
\* exception.
C1_NoAbort ==
    /\ pc # "crashed"
    /\ error = "none"
    /\ AfterCards =>
         \A t \in all_tickers :
            IF Usable(batch_data, t)
            THEN LET c == batch_data.tables[t].cols["Close"]
                 IN /\ cards[t].price = c[Len(c)] * UnitOf(t)
                    /\ cards[t].delta = (c[Len(c)] - c[Len(c) - 1]) * UnitOf(t)
                    /\ Len(cards[t].closes) = Len(c)
            ELSE /\ cards[t].price = 0
                 /\ cards[t].delta = 0
                 /\ cards[t].closes = <<>>

\* C2: in every toggle state, a card whose batch came back empty or whose
\* series is empty after processing shows the load-failure warning.
C2_AlwaysWarns ==
    AfterCards =>
        \A t \in all_tickers :
            (batch_empty(batch_data) \/ cards[t].closes = <<>>) => cards[t].warning

\* the widgets keep their values over the step
SameWidgets ==
    UNCHANGED <<simple_mode, auto_refresh, show_tech, show_heatmap, show_monte,
                target_asset, button>>

C3_Step ==
    \* the button branch clears the cache and reruns
    /\ (pc = "start" /\ button) => (cache' = NoCache /\ pc' = "start")
    \* the rerun after the countdown comes after 10 sleeps and clears the cache
    /\ (pc = "countdown" /\ pc' = "start" /\ SameWidgets)
          => (slept = COUNTDOWN /\ cache' = NoCache)
    \* the countdown shows 10, 9, ..., 1, one second each
    /\ (pc = "countdown" /\ slept' # slept)
          => (slept' = slept + 1 /\ status' = COUNTDOWN + 1 - slept'
              /\ status' \in 1..COUNTDOWN)
    \* a pass renders only data downloaded after the last refresh
    /\ pc' \in {"cards", "quant", "refresh", "countdown", "done", "crashed"}
          => batch_data'.seq > mark'
    \* without auto-refresh the pass ends: no clear, no rerun
    /\ (pc = "refresh" /\ ~auto_refresh) => (pc' = "done" /\ cache' = cache)

\* C3: every refresh, by the button or by the end of the 10-step countdown,
\* clears the cached result before the rerun, so the pass after a refresh
\* renders only data fetched after it; with auto-refresh off the pass ends
\* without clearing the cache or rerunning.
C3_RefreshRefetches == [][C3_Step]_vars

C3_Witness == pc = "quant" /\ mark >= 1 /\ batch_data.seq = mark + 1

\* C4: for a non-empty series with a positive last close, run_monte_carlo
\* returns S columns of H rows, every value strictly positive, also for a
\* single observation.
C4_PositivePaths ==
    (fpc = "simulated" /\ ~empty(res.df)
        /\ res.df.cols["Close"][len(res.df)] > 0)
    => /\ sim # None
       /\ Cardinality(DOMAIN sim.cols) = f_sims
       /\ Len(sim.index) = f_days
       /\ \A c \in DOMAIN sim.cols :
             /\ Len(sim.cols[c]) = f_days
             /\ \A k \in 1..f_days : sim.cols[c][k] = "pos"

\* last date of the simulated series
LastDate == res.df.index[len(res.df)]

\* C5: the H row dates of run_monte_carlo are the H business days that follow
\* the last historical date: no Saturday or Sunday, strictly increasing, all
\* later than that date, no business day skipped.
C5_BusinessDays ==
    (fpc = "simulated" /\ sim # None)
    => /\ Len(sim.index) = f_days
       /\ \A k \in 1..f_days :
             /\ IsBusinessDay(sim.index[k])
             /\ sim.index[k] > LastDate
             /\ k > 1 => sim.index[k] > sim.index[k - 1]
             /\ Cardinality({d \in (LastDate + 1)..sim.index[k] : IsBusinessDay(d)}) = k

\* C5 as amended: the H row dates of run_monte_carlo are the H calendar days
\* that follow the last historical date, weekends included: row k is k days
\* after it, so the dates are strictly increasing and all later than it.
C5_CalendarDays ==
    (fpc = "simulated" /\ sim # None)
    => /\ Len(sim.index) = f_days
       /\ \A k \in 1..f_days :
             /\ sim.index[k] = LastDate + k
             /\ sim.index[k] > LastDate
             /\ k > 1 => sim.index[k] > sim.index[k - 1]

C5_Witness ==
    /\ fpc = "simulated"
    /\ sim # None
    /\ f_days >= 2
    /\ \E k \in 1..f_days : ~IsBusinessDay(sim.index[k])

\* C6: for a series of fewer than 20 observations (the empty one included)
\* add_technical_indicators returns its input unchanged, without any
\* indicator column, and the chart drawn from it has no indicator overlay
\* even with show_tech on.
C6_ShortSeriesUntouched ==
    (fpc \in {"indicated", "drawn"} /\ len(res.df) < 20)
    => /\ ind = res.df
       /\ DOMAIN ind.cols \cap IndicatorCols = {}
       /\ fpc = "drawn" =>
             \A k \in 1..Len(fig.traces) : fig.traces[k] \in {"Close", "Price"}

C6_Witness ==
    fpc = "drawn" /\ f_tech /\ len(res.df) = 19 /\ Len(fig.traces) = 1

\* C7: for a series of at least 20 closes, SMA_20, STD_20 and the bands are
\* undefined at exactly the first 19 points and RSI is undefined at each of
\* the first 14 points.
C7_LeadingWindows ==
    (fpc \in {"indicated", "drawn"} /\ len(res.df) >= 20)
    => \A i \in 1..len(ind) :
          /\ FIsNaN(ind.cols["SMA_20"][i]) <=> i <= 19
          /\ FIsNaN(ind.cols["STD_20"][i]) <=> i <= 19
          /\ FIsNaN(ind.cols["Upper_Band"][i]) <=> i <= 19
          /\ FIsNaN(ind.cols["Lower_Band"][i]) <=> i <= 19
          /\ i <= 14 => FIsNaN(ind.cols["RSI"][i])

\* C8: wherever RSI is defined it lies in [0,100]; with a zero 14-day loss
\* average it is undefined when the gain average is zero too and exactly 100
\* when the gain average is positive; it is 50 when the two averages are
\* equal and not zero.
C8_RsiRange ==
    (fpc \in {"indicated", "drawn"} /\ len(res.df) >= 20)
    => \A i \in 1..len(ind) :
          LET rsi  == ind.cols["RSI"][i]
              gain == gain_avg(res.df)[i]
              loss == loss_avg(res.df)[i]
          IN /\ FDefined(rsi) =>
                   /\ rsi.den > 0
                   /\ FLeq(Frac(0, 1), rsi)
                   /\ FLeq(rsi, Frac(100, 1))
             /\ (FDefined(loss) /\ loss.num = 0 /\ gain.num = 0) => FIsNaN(rsi)
             /\ (FDefined(loss) /\ loss.num = 0 /\ gain.num > 0)
                   => FEq(rsi, Frac(100, 1))
             /\ (FDefined(loss) /\ loss.num # 0 /\ gain.num = loss.num)
                   => FEq(rsi, Frac(50, 1))

C8_Witness ==
    /\ fpc = "indicated"
    /\ len(res.df) >= 20
    /\ \E i \in 1..len(ind) :
          /\ loss_avg(res.df)[i].den # 0
          /\ loss_avg(res.df)[i].num = 0
          /\ gain_avg(res.df)[i].num > 0
          /\ FEq(ind.cols["RSI"][i], Frac(100, 1))
    /\ \E i \in 1..len(ind) : FIsNaN(ind.cols["RSI"][i])

\* C9: on an empty series add_technical_indicators returns the empty series
\* and run_monte_carlo returns None, and the caller draws no simulation chart.
C9_EmptyInput ==
    /\ (fpc \in {"indicated", "drawn"} /\ empty(res.df))
          => (empty(ind) /\ ind = res.df)
    /\ (fpc = "simulated" /\ empty(res.df))
          => (sim = None /\ ~sim_fig.drawn /\ sim_fig.traces = <<>>)

C9_Witness == fpc = "simulated" /\ empty(res.df) /\ sim = None /\ f_sims >= 1

\* the positions of the input rows that have a close
Retained == {i \in 1..len(in_df) : ~isna(in_df.cols["Close"][i])}

\* the position of the j-th retained row
NthRetained(j) == CHOOSE i \in Retained : Cardinality({x \in Retained : x <= i}) = j

\* the factor applied when is_jpy
Unit == IF f_jpy THEN JPY_UNIT ELSE 1

C10_Post ==
    LET out == res.df
        n   == Cardinality(Retained)
    IN /\ len(out) = n
       /\ \A j \in 1..n :
             LET p == NthRetained(j)
                 c == in_df.cols["Close"][p]
             IN /\ out.index[j] = in_df.index[p]
                /\ out.cols["Close"][j] = c * Unit
                /\ \A col \in {"Open", "High", "Low"} :
                      out.cols[col][j] =
                         (IF isna(in_df.cols[col][p]) THEN c ELSE in_df.cols[col][p])
                            * Unit
       /\ n >= 1 => res.price = in_df.cols["Close"][NthRetained(n)] * Unit
       /\ n >= 2 => res.delta = (in_df.cols["Close"][NthRetained(n)]
                                   - in_df.cols["Close"][NthRetained(n - 1)]) * Unit
       /\ n < 2 => res.delta = 0

\* C10: process_ticker_data returns exactly the input records that have a
\* close, in their order, each missing open/high/low replaced by the record's
\* close, all values times 100 when is_jpy; it leaves the input table as it
\* was; price is the last retained close and delta the last minus the
\* previous retained close, 0 below two retained records.
C10_Retained ==
    [][(fpc = "input" /\ fpc' = "processed") => (in_df' = in_df /\ C10_Post')]_vars

C10_Witness ==
    /\ fpc = "processed"
    /\ f_jpy
    /\ len(res.df) >= 2
    /\ len(res.df) < len(in_df)
    /\ \E i \in Retained : isna(in_df.cols["Low"][i])

====
